---- MODULE Spec2Model ----
(***************************************************************************)
(* Model of eventsourcing/mongodb.py: the MongoDB aggregate, application   *)
(* and process recorders.  A recorder owns one MongoDB collection with a   *)
(* unique index on (originator_id, originator_version).  Writers call      *)
(* insert_events concurrently; every pymongo call (insert_one, count,      *)
(* find) is one atomic step on the collection, and the steps of two        *)
(* insert_events calls interleave freely.                                  *)
(*                                                                         *)
(* A document is the record asdict(event) restricted to the fields the     *)
(* recorder looks at: originator_id, originator_version and topic (the     *)
(* state field is an opaque payload no code path inspects).                *)
(***************************************************************************)
EXTENDS Integers, Sequences, FiniteSets, TLC

\* ---- bounds of the model --------------------------------------------
MaxCalls == 2          \* insert_events calls made in one behaviour
MaxBatch == 2          \* events a caller submits in one batch
MaxEvents == 4         \* events submitted in one behaviour, all calls together

Writers == {"w1", "w2"}
Streams == {"A", "B"}
Topics  == {"Created", "Updated"}

\* Optional[int]: None is the empty sequence, the integer n is <<n>>.
None    == <<>>
Some(n) == <<n>>

\* Python truthiness of an Optional[int], as tested by `if gt:`, `if lte:`
\* and `if limit:`: None and 0 are both false.
Truthy(x) == x # None /\ x[1] # 0

VARIABLES
    collection,        \* self.collection: documents in insertion (natural) order
    pc,                \* per writer: "idle", "insert", "count", "done"
    stored_events,     \* per writer: the list argument, appended to on conflict
    idx,               \* per writer: position of the for-loop in stored_events
    notification_ids,  \* per writer: the list the call builds and returns
    outcome,           \* per writer: "none", "returned" or the exception raised
    calls,             \* number of insert_events calls started so far
    batch,             \* history: the batch as the caller submitted it
    before,            \* history: the collection when the call started
    inserted,          \* history: positions of stored_events the call inserted
    overlapped,        \* history: writers whose call ran during this writer's call
    appended,          \* history: per stream, total size of the returned calls
    max_returned,      \* history: the highest id any call has returned, 0 if none
    kwargs,            \* per writer: the tracking keyword argument of the call
    tracked,           \* history: per application, tracking ids of returned calls
    consumer           \* a reader of the notification log and its cursor

vars == << collection, pc, stored_events, idx, notification_ids, outcome,
           calls, batch, before, inserted, overlapped, appended,
           max_returned, kwargs, tracked, consumer >>

StoredEvent(o, v, t) ==
    [originator_id |-> o, originator_version |-> v, topic |-> t]

\* ---- the collection ---------------------------------------------------

Min(a, b) == IF a < b THEN a ELSE b

\* The unique index on (originator_id, originator_version): insert_one
\* raises DuplicateKeyError when a document with the same key is present.
DuplicateKey(coll, doc) ==
    \E k \in 1..Len(coll) :
        /\ coll[k].originator_id = doc.originator_id
        /\ coll[k].originator_version = doc.originator_version

\* collection.count()
count(coll) == Len(coll)

\* Bumped, had the version been raised by two.
Bumped_by_two(event) ==
    [event EXCEPT !.originator_version = @ + 2]

\* except DuplicateKeyError: event_dict["originator_version"] += 1
Bumped(event) ==
    [event EXCEPT !.originator_version = @ + 1]

\* on_duplicate, had the event been re-queued under its unchanged version.
on_duplicate_same_version(events, event) ==
    Append(events, event)

\* on_duplicate, had the conflicting event been dropped instead of re-queued.
on_duplicate_drop(events, event) ==
    events

\* except DuplicateKeyError: stored_events.append(StoredEvent(**event_dict))
on_duplicate(events, event) ==
    Append(events, Bumped(event))

\* ---- select_events ----------------------------------------------------

\* apply_params: the conditions on originator_version added to the query,
\* as a set of <<operator, bound>> pairs that must all hold.
apply_params(gt, lte) ==
    LET afterGt == IF Truthy(gt) THEN {<<"$gt", gt[1]>>} ELSE {}
    IN  IF Truthy(lte) /\ afterGt # {}
            THEN afterGt \cup {<<"$lte", lte[1]>>}
        ELSE IF Truthy(lte)
            THEN {<<"$lte", lte[1]>>}
        ELSE afterGt

Holds(cond, v) ==
    IF cond[1] = "$gt" THEN v > cond[2] ELSE v <= cond[2]

\* collection.find(query)
find(coll, originator_id, conds) ==
    LET Match(doc) ==
            /\ doc.originator_id = originator_id
            /\ \A c \in conds : Holds(c, doc.originator_version)
    IN  SelectSeq(coll, Match)

RECURSIVE InsertSorted(_, _, _)
InsertSorted(doc, sorted, desc) ==
    IF sorted = << >> THEN << doc >>
    ELSE LET h == Head(sorted)
             first == IF desc
                        THEN doc.originator_version > h.originator_version
                        ELSE doc.originator_version < h.originator_version
         IN  IF first THEN << doc >> \o sorted
             ELSE << h >> \o InsertSorted(doc, Tail(sorted), desc)

\* cursor.sort([("originator_version", ASCENDING | DESCENDING)])
RECURSIVE sort(_, _)
sort(docs, desc) ==
    IF docs = << >> THEN << >>
    ELSE InsertSorted(docs[Len(docs)], sort(SubSeq(docs, 1, Len(docs) - 1), desc), desc)

\* cursor_limit, had the limit not been applied to the cursor.
cursor_limit_ignored(docs, n) ==
    docs

\* cursor.limit(n): pymongo treats a limit of 0 as no limit.
cursor_limit(docs, n) ==
    IF n = 0 THEN docs ELSE SubSeq(docs, 1, Min(n, Len(docs)))

select_events(coll, originator_id, gt, lte, desc, limit) ==
    LET cursor == sort(find(coll, originator_id, apply_params(gt, lte)), desc)
    IN  IF Truthy(limit) THEN cursor_limit(cursor, limit[1]) ELSE cursor

\* ---- select_notifications, max_notification_id -------------------------

Notification(id, obj) ==
    [id |-> id,
     originator_id |-> obj.originator_id,
     originator_version |-> obj.originator_version,
     topic |-> obj.topic]

\* cursor.skip(n)
cursor_skip(docs, n) == SubSeq(docs, n + 1, Len(docs))

\* The loop over enumerate(cursor, start): position k of the cursor has
\* notification_id start + k - 1; the loop breaks at the first id above
\* stop - 1 and skips the documents whose topic is filtered out.
RECURSIVE notifications_from(_, _, _, _)
notifications_from(cursor, notification_id, stop, topics) ==
    IF cursor = << >> THEN << >>
    ELSE IF stop # None /\ notification_id > stop[1] - 1 THEN << >>
    ELSE IF topics # {} /\ Head(cursor).topic \notin topics
        THEN notifications_from(Tail(cursor), notification_id + 1, stop, topics)
    ELSE << Notification(notification_id, Head(cursor)) >>
            \o notifications_from(Tail(cursor), notification_id + 1, stop, topics)

select_notifications(coll, start, limit, stop, topics) ==
    notifications_from(cursor_limit(cursor_skip(coll, start - 1), limit),
                       start, stop, topics)

\* max_notification_id, had it been the index of the last document.
max_notification_id_zero_based(coll) ==
    IF coll = << >> THEN 0 ELSE count(coll) - 1

max_notification_id(coll) == count(coll)

\* ---- max_tracking_id ----------------------------------------------------

\* The outcome of a call: the value it returns or the exception it raises.
Returned(value) == << "return", value >>
Raised(exception) == << "raise", exception >>

\* collection.find_one(): the first document of the collection as a dict,
\* or Python's None when the collection is empty.  Neither is a cursor.
find_one(coll) ==
    IF coll = << >> THEN [type |-> "NoneType"]
    ELSE [type |-> "dict", value |-> coll[1]]

\* Only a pymongo Cursor has the attributes sort and limit.
HasCursorMethods(obj) == obj.type = "Cursor"

\* max_tracking_id: `self.collection.find_one().sort(...).limit(1)` looks up
\* sort on what find_one returned, whatever application_name is; with a
\* cursor the first record's notification_id would be returned, 0 without.
max_tracking_id(coll, application_name) ==
    LET found == find_one(coll)
    IN  IF ~HasCursorMethods(found)
          THEN Raised("AttributeError")
        ELSE LET max_id_record == found.value
             IN  IF max_id_record # << >>
                   THEN Returned(IF "notification_id" \in DOMAIN max_id_record
                                   THEN max_id_record.notification_id ELSE 0)
                 ELSE Returned(0)

\* ---- insert_events ------------------------------------------------------

\* Versions stored for a stream.
Versions(coll, s) ==
    { coll[k].originator_version :
        k \in { j \in 1..Len(coll) : coll[j].originator_id = s } }

SetMax(S) == CHOOSE x \in S : \A y \in S : y <= x
SetMin(S) == CHOOSE x \in S : \A y \in S : x <= y

\* First versions a caller may compute for its batch from a current or a
\* stale read of the stream: 0 for a stream read as empty, otherwise any
\* version from the stream's first one to one past its latest one.
StartVersions(coll, s) ==
    IF Versions(coll, s) = {} THEN {0}
    ELSE SetMin(Versions(coll, s)) .. (SetMax(Versions(coll, s)) + 1)

\* The topic a caller gives the event it creates at version v: the event
\* that starts a stream is a "Created", every later one an "Updated".
TopicOf(v) == IF v = 0 THEN "Created" ELSE "Updated"

\* The batch of n events of stream s with consecutive versions from v.
Batch(s, v, n) ==
    [k \in 1..n |-> StoredEvent(s, v + k - 1, TopicOf(v + k - 1))]

InCall(w) == pc[w] \in {"insert", "count"}

RECURSIVE Sum(_, _)
Sum(f, S) ==
    IF S = {} THEN 0
    ELSE LET x == CHOOSE y \in S : TRUE IN f[x] + Sum(f, S \ {x})

\* The number of events submitted so far, by the returned calls and by the
\* calls in progress.
Submitted ==
    Sum(appended, Streams)
      + Sum([w \in Writers |-> IF InCall(w) THEN Len(batch[w]) ELSE 0], Writers)

Max(a, b) == IF a > b THEN a ELSE b

\* The largest element of a non-empty sequence of integers.
SeqMax(seq) == SetMax({ seq[k] : k \in 1..Len(seq) })

\* Applications that record tracking ids, and the ids they record.
Applications == {"app1", "app2"}
TrackingIds == {1, 2}

\* The tracking keyword argument of insert_events: None, or the application
\* name and the notification id to record.
Tracking(application_name, notification_id) ==
    [application_name |-> application_name, notification_id |-> notification_id]

\* The longest the list of a call can get: every event of the batch is
\* re-queued at most once per event ever stored.
MaxListLen == MaxBatch * (MaxEvents + 1)

\* A reader of the notification log: its topics filter and page size are
\* fixed, last_seen is the only thing it keeps over a restart, page is the
\* result it holds in memory, received is the history of what it was given.
Consumer(topics, limit) ==
    [topics |-> topics, limit |-> limit, last_seen |-> 0,
     page |-> << >>, received |-> << >>]

InitRecorder ==
    /\ collection = << >>
    /\ pc = [w \in Writers |-> "idle"]
    /\ stored_events = [w \in Writers |-> << >>]
    /\ idx = [w \in Writers |-> 0]
    /\ notification_ids = [w \in Writers |-> << >>]
    /\ outcome = [w \in Writers |-> "none"]
    /\ calls = 0
    /\ batch = [w \in Writers |-> << >>]
    /\ before = [w \in Writers |-> << >>]
    /\ inserted = [w \in Writers |-> {}]
    /\ overlapped = [w \in Writers |-> {}]
    /\ appended = [s \in Streams |-> 0]
    /\ max_returned = 0
    /\ kwargs = [w \in Writers |-> None]
    /\ tracked = [a \in Applications |-> << >>]

Init ==
    /\ InitRecorder
    /\ consumer = Consumer({}, 1)

\* Writers are interchangeable and so are streams: the first call of a
\* behaviour is taken to be w1's, on stream A.
FirstCall(w, events) ==
    calls = 0 => (w = "w1" /\ events[1].originator_id = "A")

\* A writer calls insert_events(events, tracking=...): notification_ids = []
\* and the for-loop is positioned on the first event.  The keyword arguments
\* are accepted and never read.
Call(w, events, tracking) ==
    /\ pc[w] \in {"idle", "done"}
    /\ FirstCall(w, events)
    /\ calls < MaxCalls
    /\ Submitted + Len(events) <= MaxEvents
    /\ calls' = calls + 1
    /\ pc' = [pc EXCEPT ![w] = "insert"]
    /\ stored_events' = [stored_events EXCEPT ![w] = events]
    /\ idx' = [idx EXCEPT ![w] = 1]
    /\ notification_ids' = [notification_ids EXCEPT ![w] = << >>]
    /\ outcome' = [outcome EXCEPT ![w] = "none"]
    /\ batch' = [batch EXCEPT ![w] = events]
    /\ before' = [before EXCEPT ![w] = collection]
    /\ inserted' = [inserted EXCEPT ![w] = {}]
    /\ overlapped' =
          [u \in Writers |->
              IF u = w THEN { x \in Writers : InCall(x) }
              ELSE IF InCall(u) THEN overlapped[u] \cup {w}
              ELSE overlapped[u] \ {w}]
    /\ kwargs' = [kwargs EXCEPT ![w] = tracking]
    /\ UNCHANGED << collection, appended, max_returned, tracked, consumer >>

\* try: self.collection.insert_one(asdict(event))
\* except DuplicateKeyError: append the event with its version plus one.
InsertOne(w) ==
    /\ pc[w] = "insert"
    /\ Len(stored_events[w]) <= MaxListLen
    /\ LET event == stored_events[w][idx[w]]
       IN  IF DuplicateKey(collection, event)
             THEN /\ stored_events' =
                        [stored_events EXCEPT ![w] = on_duplicate(@, event)]
                  /\ UNCHANGED << collection, inserted >>
             ELSE /\ collection' = Append(collection, event)
                  /\ inserted' = [inserted EXCEPT ![w] = @ \cup {idx[w]}]
                  /\ UNCHANGED stored_events
    /\ pc' = [pc EXCEPT ![w] = "count"]
    /\ UNCHANGED << idx, notification_ids, outcome, calls, batch, before,
                    overlapped, appended, max_returned, kwargs, tracked,
                    consumer >>

\* notification_ids.append(self.collection.count()), then the for-loop
\* advances; past the end of the list the call returns notification_ids.
Count(w) ==
    /\ pc[w] = "count"
    /\ notification_ids' =
            [notification_ids EXCEPT ![w] = Append(@, count(collection))]
    /\ IF idx[w] < Len(stored_events[w])
         THEN /\ idx' = [idx EXCEPT ![w] = @ + 1]
              /\ pc' = [pc EXCEPT ![w] = "insert"]
              /\ UNCHANGED << outcome, appended, max_returned, tracked >>
         ELSE /\ pc' = [pc EXCEPT ![w] = "done"]
              /\ outcome' = [outcome EXCEPT ![w] = "returned"]
              /\ appended' =
                    [appended EXCEPT ![batch[w][1].originator_id] = @ + Len(batch[w])]
              /\ max_returned' = Max(max_returned, SeqMax(notification_ids'[w]))
              /\ tracked' =
                    IF kwargs[w] = None THEN tracked
                    ELSE [tracked EXCEPT ![kwargs[w].application_name] =
                              Append(@, kwargs[w].notification_id)]
              /\ UNCHANGED idx
    /\ UNCHANGED << collection, stored_events, calls, batch, before,
                    inserted, overlapped, kwargs, consumer >>

Next ==
    \/ \E w \in Writers, s \in Streams, n \in 1..MaxBatch :
         \E v \in StartVersions(collection, s) : Call(w, Batch(s, v, n), None)
    \/ \E w \in Writers : InsertOne(w)
    \/ \E w \in Writers : Count(w)

Spec == Init /\ [][Next]_vars

\* The process recorder: MongoDBProcessRecorder inherits insert_events, and
\* its callers pass the tracking record of the notification they processed.
TrackingArgs ==
    { Tracking(a, n) : a \in Applications, n \in TrackingIds }

NextProcess ==
    \/ \E w \in Writers, s \in Streams, n \in 1..MaxBatch :
         \E v \in StartVersions(collection, s), t \in TrackingArgs :
            Call(w, Batch(s, v, n), t)
    \/ \E w \in Writers : InsertOne(w)
    \/ \E w \in Writers : Count(w)

ProcessSpec == Init /\ [][NextProcess]_vars

\* ---- a consumer of the notification log ------------------------------------------

MaxPage == 2           \* largest page size (limit) a consumer reads with

\* The consumer calls select_notifications(start = last_seen + 1, limit,
\* topics = its filter), takes the result and sets last_seen to the id of
\* the last notification returned.
Poll ==
    /\ LET r == select_notifications(collection, consumer.last_seen + 1,
                                     consumer.limit, None, consumer.topics)
       IN  consumer' =
              [consumer EXCEPT
                  !.page = r,
                  !.received = @ \o r,
                  !.last_seen = IF r = << >> THEN @ ELSE r[Len(r)].id]
    /\ UNCHANGED << collection, pc, stored_events, idx, notification_ids,
                    outcome, calls, batch, before, inserted, overlapped,
                    appended, max_returned, kwargs, tracked >>

\* The consumer restarts: it loses what it holds in memory and keeps
\* last_seen.
Restart ==
    /\ consumer.page # << >>
    /\ consumer' = [consumer EXCEPT !.page = << >>]
    /\ UNCHANGED << collection, pc, stored_events, idx, notification_ids,
                    outcome, calls, batch, before, inserted, overlapped,
                    appended, max_returned, kwargs, tracked >>

InitConsumer ==
    /\ InitRecorder
    /\ \E T \in SUBSET Topics, L \in 1..MaxPage : consumer = Consumer(T, L)

NextConsumer ==
    \/ Next
    \/ Poll
    \/ Restart

\* A thread that is inside insert_events keeps being scheduled.
Scheduled ==
    \A w \in Writers : WF_vars(InsertOne(w)) /\ WF_vars(Count(w))

FairSpec == Spec /\ Scheduled

\* The writers are scheduled and the consumer keeps polling.
ConsumerSpec ==
    InitConsumer /\ [][NextConsumer]_vars /\ Scheduled /\ WF_vars(Poll)

\* ---- vocabulary of the properties ------------------------------------------

\* The stream the writer's call appends to.
StreamOf(w) == batch[w][1].originator_id

\* The documents the writer's call has inserted.
InsertedDocs(w) == { stored_events[w][k] : k \in inserted[w] }

\* The events of the batch as submitted.
SubmittedDocs(w) == { batch[w][k] : k \in 1..Len(batch[w]) }

\* An insert_one of the writer's call has hit a DuplicateKeyError.
Conflicted(w) == Len(stored_events[w]) > Len(batch[w])

\* Nothing but the writer's own call has written since the call started.
NoOtherWrites(w) ==
    Len(collection) = Len(before[w]) + Cardinality(inserted[w])

\* select_events(originator_id) with no bounds.
ReadAll(coll, s) == select_events(coll, s, None, None, FALSE, None)

\* The set of elements of a sequence.
Range(seq) == { seq[k] : k \in 1..Len(seq) }

\* Versions and ids the bounded quantifiers of the properties range over.
VersionArgs == 0 .. MaxEvents
IdArgs == 1 .. MaxEvents

\* ---- the write path -----------------------------------------------------------

\* The first event of the writer's batch was already stored, under the same
\* (originator_id, originator_version), when the call started.
FirstVersionStored(w) == DuplicateKey(before[w], batch[w][1])

\* C1: a call whose first event has an already-stored (originator_id,
\* originator_version) fails with a concurrency conflict, and
\* select_events(originator_id) returns after the call what it returned
\* before it.
C1_StoredVersionConflicts ==
    \A w \in Writers :
        (pc[w] = "done" /\ FirstVersionStored(w)) =>
            /\ outcome[w] = "ConcurrencyConflict"
            /\ NoOtherWrites(w) =>
                 ReadAll(collection, StreamOf(w)) = ReadAll(before[w], StreamOf(w))

\* C2: every event a call of insert_events has stored is one of the events
\* its caller submitted, under the version the caller supplied.
C2_StoredUnderSubmittedVersion ==
    \A w \in Writers : InsertedDocs(w) \subseteq SubmittedDocs(w)

\* C3: a call of which at least one insert hit an already-stored
\* (originator_id, originator_version) applies nothing: it has stored no
\* event, it has assigned no notification id, and max_notification_id() is
\* what it was before the call.
C3_AllOrNothing ==
    \A w \in Writers :
        (pc[w] = "done" /\ Conflicted(w)) =>
            /\ inserted[w] = {}
            /\ notification_ids[w] = << >>
            /\ NoOtherWrites(w) =>
                 max_notification_id(collection) = max_notification_id(before[w])

\* Both writers' calls ran concurrently and both submitted event e, whose
\* version was free when each of the calls started.
SameStaleVersion(w1, w2, e) ==
    /\ w1 # w2
    /\ w2 \in overlapped[w1]
    /\ pc[w1] = "done" /\ pc[w2] = "done"
    /\ e \in SubmittedDocs(w1) \cap SubmittedDocs(w2)
    /\ ~DuplicateKey(before[w1], e)
    /\ ~DuplicateKey(before[w2], e)

\* The writer's call stored the event of its batch at the batch's position
\* of that event, i.e. under the submitted version.
StoredAsSubmitted(w, e) ==
    \E k \in inserted[w] : k <= Len(batch[w]) /\ batch[w][k] = e

\* C4: of two concurrent calls that submit the same (originator_id,
\* originator_version), exactly one stores its event under that version; the
\* other one gets a concurrency conflict and stores none of its events.
C4_OneWriterLoses ==
    \A w1, w2 \in Writers : \A e \in SubmittedDocs(w1) :
        SameStaleVersion(w1, w2, e) =>
            \/ /\ StoredAsSubmitted(w1, e)
               /\ ~StoredAsSubmitted(w2, e)
               /\ outcome[w2] = "ConcurrencyConflict"
               /\ inserted[w2] = {}
            \/ /\ StoredAsSubmitted(w2, e)
               /\ ~StoredAsSubmitted(w1, e)
               /\ outcome[w1] = "ConcurrencyConflict"
               /\ inserted[w1] = {}

\* The versions of a sequence of events go up by exactly one at each step.
ConsecutiveVersions(events) ==
    \A k \in 1..(Len(events) - 1) :
        events[k + 1].originator_version = events[k].originator_version + 1

\* C5: whatever the interleaving of the calls, whose batches are runs of
\* consecutive versions starting between the stream's first version and one
\* past its latest one, no two stored events of a stream share a version and
\* select_events returns a version sequence without gap or duplicate.
C5_ContiguousVersions ==
    /\ \A i, j \in 1..Len(collection) :
          (i # j /\ collection[i].originator_id = collection[j].originator_id)
              => collection[i].originator_version # collection[j].originator_version
    /\ \A s \in Streams : ConsecutiveVersions(ReadAll(collection, s))

\* A call that hit a conflict has returned while the other writer is in the
\* middle of a call on the same stream, which now holds three events or more.
C5_Witness ==
    \E w1, w2 \in Writers :
        /\ w1 # w2
        /\ pc[w1] = "done" /\ Conflicted(w1)
        /\ InCall(w2) /\ StreamOf(w2) = StreamOf(w1)
        /\ Len(ReadAll(collection, StreamOf(w1))) >= 3

\* No call on the stream is in progress.
Settled(s) == \A w \in Writers : InCall(w) => StreamOf(w) # s

\* C6: once the calls on a stream have returned, select_events without
\* bounds returns as many events as the returned calls submitted in total,
\* in ascending version order.
C6_ReadReturnsAllAppended ==
    \A s \in Streams :
        Settled(s) =>
            LET r == ReadAll(collection, s)
            IN  /\ Len(r) = appended[s]
                /\ \A k \in 1..(Len(r) - 1) :
                      r[k].originator_version < r[k + 1].originator_version

\* Two calls on one stream have returned, one of them after a conflict, and
\* the stream holds their three or more events.
C6_Witness ==
    \E s \in Streams :
        /\ \A w \in Writers : pc[w] = "done" /\ StreamOf(w) = s
        /\ \E w \in Writers : Conflicted(w)
        /\ appended[s] >= 3
        /\ Len(ReadAll(collection, s)) = appended[s]

\* ---- the read path ------------------------------------------------------------

\* The stored events of stream s whose version lies in (g, l].
StoredBetween(s, g, l) ==
    { d \in Range(collection) :
        /\ d.originator_id = s
        /\ d.originator_version > g
        /\ d.originator_version <= l }

MaxVersionArg == MaxEvents + 1

\* C7: select_events with gt=g returns exactly the stored events with
\* version > g, with lte=l exactly those with version <= l, and with both
\* exactly those with g < version <= l, for all non-negative g and l.
C7_VersionBounds ==
    \A s \in Streams : \A g, l \in VersionArgs :
        /\ Range(select_events(collection, s, Some(g), None, FALSE, None))
             = StoredBetween(s, g, MaxVersionArg)
        /\ Range(select_events(collection, s, None, Some(l), FALSE, None))
             = StoredBetween(s, -1, l)
        /\ Range(select_events(collection, s, Some(g), Some(l), FALSE, None))
             = StoredBetween(s, g, l)

\* ---- notification ids -----------------------------------------------------------

\* The notification ids the writer's call has put in the list it returns.
ReturnedIds(w) == Range(notification_ids[w])

\* The <<writer, position>> pairs of the events stored by the calls, for
\* which the loop has already appended the notification id.
Assigned ==
    { wk \in Writers \X (1 .. (MaxListLen + 1)) :
          wk[2] \in inserted[wk[1]] /\ wk[2] <= Len(notification_ids[wk[1]]) }

\* C8: the ids returned by two calls whose executions interleave are
\* disjoint, and no two distinct stored events get the same notification id.
C8_DisjointIds ==
    /\ \A w1, w2 \in Writers :
          (w1 # w2 /\ w2 \in overlapped[w1] /\ pc[w1] = "done" /\ pc[w2] = "done")
              => ReturnedIds(w1) \cap ReturnedIds(w2) = {}
    /\ \A a, b \in Assigned :
          a # b => notification_ids[a[1]][a[2]] # notification_ids[b[1]][b[2]]

\* C9: the list a call returns holds one id per event of the submitted
\* batch, and the ids are consecutive and ascending.
C9_OneIdPerEvent ==
    \A w \in Writers :
        pc[w] = "done" =>
            /\ Len(notification_ids[w]) = Len(batch[w])
            /\ \A k \in 1..(Len(notification_ids[w]) - 1) :
                  notification_ids[w][k + 1] = notification_ids[w][k] + 1

\* C10: select_notifications(start, limit, stop) returns, in ascending id
\* order, notifications with id in [start, stop], the one with id stop
\* included when it exists and limit allows it; without stop the ids have no
\* upper bound.
C10_StopInclusive ==
    \A start, limit \in IdArgs :
        /\ \A stop \in IdArgs :
              LET r == select_notifications(collection, start, limit, Some(stop), {})
              IN  /\ \A k \in 1..(Len(r) - 1) : r[k].id < r[k + 1].id
                  /\ \A k \in 1..Len(r) : start <= r[k].id /\ r[k].id <= stop
                  /\ (start <= stop /\ stop <= count(collection)
                        /\ stop - start + 1 <= limit)
                       => \E k \in 1..Len(r) : r[k].id = stop
        /\ LET r == select_notifications(collection, start, limit, None, {})
           IN  { r[k].id : k \in 1..Len(r) }
                 = start .. Min(start + limit - 1, count(collection))

\* ---- the notification log ---------------------------------------------------------

\* Every stored event as the notification of its position in the log.
AllNotifications(coll) ==
    [k \in 1..Len(coll) |-> Notification(k, coll[k])]

\* The notifications with id >= start and topic in T, in ascending id order.
MatchingFrom(coll, start, T) ==
    LET Match(n) == n.id >= start /\ n.topic \in T
    IN  SelectSeq(AllNotifications(coll), Match)

TopicFilters == (SUBSET Topics) \ {{}}

\* Starts and limits from 1 to one past the end of the log; a larger start
\* or limit reads what one past the end reads.
LogArgs == 1 .. Min(MaxEvents, Len(collection) + 1)

\* C11: with a non-empty topics filter, select_notifications returns the
\* first `limit` of the notifications with id >= start and topic in the
\* filter: it filters before it truncates.
C11_FilterBeforeTruncate ==
    \A start, limit \in IdArgs : \A T \in TopicFilters :
        select_notifications(collection, start, limit, None, T)
            = SubSeq(MatchingFrom(collection, start, T), 1,
                     Min(limit, Len(MatchingFrom(collection, start, T))))

\* C12: select_notifications(start=k, limit=L) with k, L >= 1 returns at
\* most L notifications, all with id >= k, in strictly ascending id order,
\* and with a non-empty topics filter only notifications of those topics.
C12_AtMostLimitFromStart ==
    \A k, L \in LogArgs : \A T \in SUBSET Topics :
        \A r \in { select_notifications(collection, k, L, None, T) } :
            /\ Len(r) <= L
            /\ \A i \in 1..Len(r) : r[i].id >= k
            /\ \A i \in 1..(Len(r) - 1) : r[i].id < r[i + 1].id
            /\ T # {} => \A i \in 1..Len(r) : r[i].topic \in T

\* The log holds three notifications or more of both topics; a read from
\* id 2 with limit 2 is cut by the limit, and the topics filter removes a
\* notification from it.
C12_Witness ==
    /\ Len(collection) >= 3
    /\ Len(select_notifications(collection, 2, 2, None, {})) = 2
    /\ Len(select_notifications(collection, 2, 2, None, {"Updated"})) = 1

\* ---- order and limit of select_events ---------------------------------------------

\* The events are in ascending (descending, if desc) version order.
Ordered(events, desc) ==
    \A k \in 1..(Len(events) - 1) :
        IF desc
          THEN events[k].originator_version > events[k + 1].originator_version
          ELSE events[k].originator_version < events[k + 1].originator_version

\* C18: select_events returns the events in ascending version order, or in
\* descending order when desc is true, and with a limit, whatever
\* non-negative integer it is, the first `limit` events of that order.
C18_OrderAndLimit ==
    \A s \in Streams : \A desc \in BOOLEAN :
        LET all == select_events(collection, s, None, None, desc, None)
        IN  /\ Ordered(all, desc)
            /\ Range(all) = { d \in Range(collection) : d.originator_id = s }
            /\ \A n \in VersionArgs :
                  select_events(collection, s, None, None, desc, Some(n))
                      = SubSeq(all, 1, Min(n, Len(all)))

\* ---- returned and reported notification ids --------------------------------------

\* The id under which select_notifications reports the stored event.
ReportedId(coll, event) ==
    LET log == select_notifications(coll, 1, count(coll), None, {})
    IN  (CHOOSE n \in Range(log) :
            /\ n.originator_id = event.originator_id
            /\ n.originator_version = event.originator_version).id

\* C19: the notification id insert_events returned for a stored event is
\* the id under which select_notifications reports that event, and the id
\* of a stored event is the same in every later state.
C19_ReturnedIdIsReportedId ==
    /\ [](\A a \in Assigned :
            notification_ids[a[1]][a[2]]
                = ReportedId(collection, stored_events[a[1]][a[2]]))
    /\ [][\A e \in Range(collection) :
            ReportedId(collection', e) = ReportedId(collection, e)]_vars

\* ---- max_notification_id ------------------------------------------------------------

\* No insert_events call is in progress.
Quiescent == \A w \in Writers : ~InCall(w)

\* C14: when no insert_events call is in progress, max_notification_id() is
\* 0 if no id has been assigned yet and otherwise the highest id any call
\* has returned; and its value never decreases.
C14_MaxNotificationId ==
    /\ [](Quiescent => max_notification_id(collection) = max_returned)
    /\ [][max_notification_id(collection') >= max_notification_id(collection)]_vars

\* Two interleaved calls, one of them after a conflict, have returned and
\* three ids or more have been assigned.
C14_Witness ==
    /\ Quiescent
    /\ max_returned >= 3
    /\ max_notification_id(collection) = max_returned
    /\ \E w \in Writers : Conflicted(w) /\ overlapped[w] # {}

\* ---- termination of insert_events ---------------------------------------------------

\* C20: every insert_events call terminates: the loop over the list it
\* appends to reaches the end of the list, the other writers making
\* finitely many inserts.
C20_InsertEventsTerminates ==
    \A w \in Writers : InCall(w) ~> (pc[w] = "done")

\* A call has returned after its loop re-queued events twice or more while
\* another writer's call was running.
C20_Witness ==
    \E w \in Writers :
        /\ pc[w] = "done"
        /\ Len(stored_events[w]) >= Len(batch[w]) + 2
        /\ overlapped[w] # {}

\* ---- the tracking store ---------------------------------------------------------------

\* The tracking records stored in the recorder's collection.
TrackingRecords(coll) ==
    { d \in Range(coll) : "notification_id" \in DOMAIN d }

\* The tracking record is stored.
TrackingRecorded(coll, t) ==
    \E d \in TrackingRecords(coll) :
        /\ d.application_name = t.application_name
        /\ d.notification_id = t.notification_id

\* C15: the tracking cursor never moves backward: once a lower id is
\* recorded for an application after a higher one, max_tracking_id of the
\* application is still the highest id recorded for it.
C15_TrackingNeverMovesBack ==
    \A a \in Applications :
        LET ids == tracked[a]
        IN  (\E i, j \in 1..Len(ids) : i < j /\ ids[j] < ids[i])
                => max_tracking_id(collection, a) = Returned(SeqMax(ids))

\* C16: max_tracking_id(application_name) returns 0 when nothing has been
\* recorded for the application, and otherwise the highest id recorded for
\* it, whatever is recorded for other applications and stored as events.
C16_MaxTrackingId ==
    \A a \in Applications :
        max_tracking_id(collection, a)
            = IF tracked[a] = << >> THEN Returned(0)
              ELSE Returned(SeqMax(tracked[a]))

\* C17: an insert_events call that carries a tracking record is atomic: in
\* every state either the tracking record and all events of the batch are
\* recorded, or neither the record nor any event of the batch is.
C17_TrackingAtomicWithEvents ==
    \A w \in Writers :
        (pc[w] # "idle" /\ kwargs[w] # None) =>
            \/ /\ TrackingRecorded(collection, kwargs[w])
               /\ Cardinality(inserted[w]) = Len(batch[w])
            \/ /\ ~TrackingRecorded(collection, kwargs[w])
               /\ inserted[w] = {}

\* ---- the consumer's scan -----------------------------------------------------------

\* The consumer's filter lets the stored event through.
Wanted(doc) == consumer.topics = {} \/ doc.topic \in consumer.topics

\* The consumer has been given the notification of position i of the log.
Received(i) ==
    /\ i <= Len(collection)
    /\ \E k \in 1..Len(consumer.received) :
          consumer.received[k] = Notification(i, collection[i])

\* C13: a consumer that keeps reading from last_seen + 1 with a fixed limit
\* and topics filter is given the notifications in ascending id order, each
\* once, and is eventually given every stored notification that matches
\* its filter, over restarts and while appends are committed.
C13_ConsumerReceivesAll ==
    /\ [](\A k \in 1..(Len(consumer.received) - 1) :
            consumer.received[k].id < consumer.received[k + 1].id)
    /\ \A i \in IdArgs :
          (i <= Len(collection) /\ Wanted(collection[i])) ~> Received(i)

====
